---- MODULE Spec2Model ----
(***************************************************************************)
(* A model of nukeglob.py (class FileSearcher): the extraction of Read     *)
(* nodes from the text of .nk documents, the resolution of their `file`    *)
(* references against a filesystem, the --contain and --date filters and   *)
(* the directory walk of search().                                         *)
(*                                                                         *)
(* Python strings are TLA+ strings, handled character by character with    *)
(* Len, SubSeq and \o.  A Python exception is a result record with         *)
(* raised = TRUE and the exception's class name.                           *)
(***************************************************************************)
EXTENDS Naturals, Sequences, FiniteSets

(***************************************************************************)
(* Bounds of the model.                                                    *)
(***************************************************************************)
\* the most Read nodes a generated document holds
MaxNodes == 2
\* the most .nk documents under the search root
MaxDocs == 2
\* creation times, and --date cutoffs, range over 1..MaxCtime
MaxCtime == 2

(***************************************************************************)
(* Characters and strings.                                                 *)
(***************************************************************************)
\* the character of s at index i (1-based), "" past either end
At(s, i) == IF i >= 1 /\ i <= Len(s) THEN SubSeq(s, i, i) ELSE ""

\* s[i:] of Python, for the 1-based index i
From(s, i) == SubSeq(s, i, Len(s))

\* s.startswith(p)
StartsWith(s, p) == Len(p) <= Len(s) /\ SubSeq(s, 1, Len(p)) = p

\* whether p occurs in s at index i
OccursAt(s, p, i) == i >= 1 /\ i + Len(p) - 1 <= Len(s) /\ SubSeq(s, i, i + Len(p) - 1) = p

\* `token in s` of Python: token is a substring of s
Contains(s, token) == \E i \in 1..(Len(s) + 1) : OccursAt(s, token, i)

\* the least member of a set of indices, 0 for the empty set
Least(hits) == IF hits = {} THEN 0 ELSE CHOOSE k \in hits : \A m \in hits : k <= m

\* the least index >= i at which p occurs in s, 0 when there is none
Find(s, p, i) == Least({k \in i..(Len(s) + 1) : OccursAt(s, p, k)})

\* the characters str.strip() removes
Whitespace == {" ", "\t", "\n", "\r"}

Digits == {"0", "1", "2", "3", "4", "5", "6", "7", "8", "9"}

\* the printable ASCII characters in code-point order, from the space (32) on,
\* with a newline holding the place of the grave accent
Ascii == " !\"#$%&'()*+,-./0123456789:;<=>?@ABCDEFGHIJKLMNOPQRSTUVWXYZ[\\]^_\nabcdefghijklmnopqrstuvwxyz{|}~"

\* the rank of a character in code-point order (tab, newline and return come first)
Ord(c) ==
    IF c \in {"\t", "\n", "\r"} THEN 0
    ELSE CHOOSE i \in 1..Len(Ascii) : SubSeq(Ascii, i, i) = c

\* a < b for Python strings: code-point order, a proper prefix first
RECURSIVE StrLess(_, _)
StrLess(a, b) ==
    IF b = "" THEN FALSE
    ELSE IF a = "" THEN TRUE
    ELSE IF At(a, 1) = At(b, 1) THEN StrLess(From(a, 2), From(b, 2))
    ELSE Ord(At(a, 1)) < Ord(At(b, 1))

\* s.strip(chars) of Python, on the left
RECURSIVE LStrip(_, _)
LStrip(s, chars) ==
    IF s # "" /\ At(s, 1) \in chars THEN LStrip(From(s, 2), chars) ELSE s

\* s.strip(chars) of Python, on the right
RECURSIVE RStrip(_, _)
RStrip(s, chars) ==
    IF s # "" /\ At(s, Len(s)) \in chars THEN RStrip(SubSeq(s, 1, Len(s) - 1), chars) ELSE s

\* s.strip(chars)
Strip(s, chars) == RStrip(LStrip(s, chars), chars)

\* s.split(sep) of Python for a one-character sep: always at least one piece;
\* k is the index of the first sep in s, 0 when there is none
RECURSIVE SplitAt(_, _, _)
SplitAt(s, sep, k) ==
    IF k = 0 THEN <<s>>
    ELSE <<SubSeq(s, 1, k - 1)>> \o SplitAt(From(s, k + 1), sep, Find(From(s, k + 1), sep, 1))

Split(s, sep) == SplitAt(s, sep, Find(s, sep, 1))

\* sep.join(parts)
RECURSIVE Join(_, _)
Join(parts, sep) ==
    IF parts = <<>> THEN ""
    ELSE IF Len(parts) = 1 THEN parts[1]
    ELSE parts[1] \o sep \o Join(Tail(parts), sep)

(***************************************************************************)
(* find_node: the Read nodes of a document's text.                         *)
(***************************************************************************)
\* the empty NodeRecord, node = {}
EmptyNode == [k \in {} |-> ""]

\* Put keeping the value a key already has
PutIfAbsent(node, key, value) ==
    [k \in (DOMAIN node) \cup {key} |-> IF k \in DOMAIN node THEN node[k] ELSE value]

\* node[key] = value
Put(node, key, value) ==
    [k \in (DOMAIN node) \cup {key} |-> IF k = key THEN value ELSE node[k]]

\* re.findall(node_name \{([^}]*)\}, text) from index pos on: the bodies of the
\* leftmost non-overlapping matches.  A match starts at the first opener,
\* "node_name {", and ends at the first "}" after it; with no "}" left,
\* nothing matches.
RECURSIVE FindAll(_, _, _)
\* the match that opens at index i (0: no opener left) and closes at index j
MatchFrom(text, opener, i, j) ==
    IF i = 0 \/ j = 0 THEN <<>>
    ELSE <<SubSeq(text, i + Len(opener), j - 1)>> \o FindAll(text, opener, j + 1)

\* the index of the first "}" after the opener at index i
Closer(text, opener, i) == IF i = 0 THEN 0 ELSE Find(text, "}", i + Len(opener))

\* the matches whose opener is at index i or after it
MatchesFrom(text, opener, i) == MatchFrom(text, opener, i, Closer(text, opener, i))

FindAll(text, opener, pos) == MatchesFrom(text, opener, Find(text, opener, pos))

\* p.split(' ', 1): split at the first space character only, which is at
\* index k (0: p holds no space)
SplitFirst(p, k) == IF k = 0 THEN <<p>> ELSE <<SubSeq(p, 1, k - 1), From(p, k + 1)>>

\* prop.strip().split(' ', 1), for the stripped line p
SplitProp(p) == SplitFirst(p, Find(p, " ", 1))

\* key, value = kv; node[key] = value: unpacking anything but two raises ValueError
RECURSIVE ParseProps(_, _)
SetProp(properties, node, kv) ==
    IF Len(kv) # 2 THEN [raised |-> TRUE, node |-> node]
    ELSE ParseProps(properties, Put(node, kv[1], kv[2]))

\* one line of a body, stripped: blank lines are passed over
ParseProp(properties, node, p) ==
    IF p = "" THEN ParseProps(properties, node) ELSE SetProp(properties, node, SplitProp(p))

\* the loop over one body's lines
ParseProps(properties, node) ==
    IF properties = <<>> THEN [raised |-> FALSE, node |-> node]
    ELSE ParseProp(Tail(properties), node, Strip(Head(properties), Whitespace))

\* nodes.append(node), unless the body's lines raised
RECURSIVE ParseMatches(_, _)
AppendNode(matches, nodes, r) ==
    IF r.raised THEN [raised |-> TRUE, error |-> "ValueError", nodes |-> <<>>]
    ELSE ParseMatches(matches, Append(nodes, r.node))

\* the loop over the matches
ParseMatches(matches, nodes) ==
    IF matches = <<>> THEN [raised |-> FALSE, error |-> "", nodes |-> nodes]
    ELSE AppendNode(Tail(matches), nodes, ParseProps(Split(Head(matches), "\n"), EmptyNode))

find_node(text, node_name) == ParseMatches(FindAll(text, node_name \o " {", 1), <<>>)

(***************************************************************************)
(* pathlib.Path on a POSIX system.                                         *)
(***************************************************************************)
\* the root of a path string: "/" , "//" for exactly two leading slashes, or ""
PathRoot(s) ==
    IF ~StartsWith(s, "/") THEN ""
    ELSE IF StartsWith(s, "//") /\ ~StartsWith(s, "///") THEN "//"
    ELSE "/"

\* the components after the root: empty and "." components are dropped
PathNames(s) == SelectSeq(Split(s, "/"), LAMBDA c : c # "" /\ c # ".")

\* a parsed path: its root and its components
Path(s) == [root |-> PathRoot(s), names |-> PathNames(s)]

\* path.parts
Parts(path) == (IF path.root = "" THEN <<>> ELSE <<path.root>>) \o path.names

\* str(path)
Str(path) ==
    IF path.root = "" /\ path.names = <<>> THEN "." ELSE path.root \o Join(path.names, "/")

\* path.name
Name(path) == IF path.names = <<>> THEN "" ELSE path.names[Len(path.names)]

\* path.parent
Parent(path) ==
    IF path.names = <<>> THEN path
    ELSE [root |-> path.root, names |-> SubSeq(path.names, 1, Len(path.names) - 1)]

\* Path(s).name and str(Path(s).parent) for a path string
PathName(s) == Name(Path(s))
PathParent(s) == Str(Parent(Path(s)))

\* parts[1:]
Rest(parts) == IF parts = <<>> THEN <<>> ELSE Tail(parts)

\* str(Path('/' + '/'.join(Path(path).parts[1:]))): the first part, root or
\* drive-like segment, is replaced by a single root separator
NormalizePath(path) == Str(Path("/" \o Join(Rest(Parts(Path(path))), "/")))

(***************************************************************************)
(* The placeholder regular expressions.                                    *)
(***************************************************************************)
\* the number of consecutive c characters of s from index i on
RECURSIVE RunLength(_, _, _)
RunLength(s, i, cs) == IF At(s, i) # "" /\ At(s, i) \in cs THEN 1 + RunLength(s, i + 1, cs) ELSE 0

\* %\d+d at index i, with n digits after the %: the index of its closing d, or 0
PrintfEndAfter(s, i, n) ==
    IF At(s, i) = "%" /\ n >= 1 /\ At(s, i + 1 + n) = "d" THEN i + 1 + n ELSE 0

PrintfEnd(s, i) == PrintfEndAfter(s, i, RunLength(s, i + 1, Digits))

\* (%\d+d|\#{2,}) at index i, where %\d+d ends at e (0: no match) and n
\* # characters stand: the index of the match's last character, or 0
PlaceholderEndOf(i, e, n) == IF e > 0 THEN e ELSE IF n >= 2 THEN i + n - 1 ELSE 0

PlaceholderEnd(s, i) == PlaceholderEndOf(i, PrintfEnd(s, i), RunLength(s, i, {"#"}))

\* re.search(r'(%\d+d|\#{2,})', s) is not None
HasPlaceholder(s) == \E i \in 1..Len(s) : PlaceholderEnd(s, i) > 0

\* . of a regular expression without DOTALL: any character but a newline
AnyChar(c) == c # "" /\ c # "\n"

\* (%\d+d|\#{2,}).exr at index i: the index of the match's last character, or 0.
\* The dot is unescaped and matches any character; \#{2,} is greedy and gives
\* back one # to the dot when "exr" follows the run directly.
PlaceholderExrEndOf(s, i, e, n) ==
    IF e > 0
    THEN (IF AnyChar(At(s, e + 1)) /\ OccursAt(s, "exr", e + 2) THEN e + 4 ELSE 0)
    ELSE IF n >= 2 /\ AnyChar(At(s, i + n)) /\ OccursAt(s, "exr", i + n + 1) THEN i + n + 3
    ELSE IF n >= 3 /\ OccursAt(s, "exr", i + n) THEN i + n + 2
    ELSE 0

PlaceholderExrEnd(s, i) == PlaceholderExrEndOf(s, i, PrintfEnd(s, i), RunLength(s, i, {"#"}))

\* re.sub(r'(%\d+d|\#{2,}).exr', '*', s) from index i on; e is the end of the
\* match at i, 0 when there is none
RECURSIVE SubPlaceholderExr(_, _)
SubExrAt(s, i, e) ==
    IF e > 0 THEN "*" \o SubPlaceholderExr(s, e + 1) ELSE At(s, i) \o SubPlaceholderExr(s, i + 1)

SubPlaceholderExr(s, i) == IF i > Len(s) THEN "" ELSE SubExrAt(s, i, PlaceholderExrEnd(s, i))

\* sequence_pattern.sub('*', s) from index i on; e is the end of the match at
\* i, 0 when there is none
RECURSIVE SubPlaceholder(_, _)
SubAt(s, i, e) ==
    IF e > 0 THEN "*" \o SubPlaceholder(s, e + 1) ELSE At(s, i) \o SubPlaceholder(s, i + 1)

SubPlaceholder(s, i) == IF i > Len(s) THEN "" ELSE SubAt(s, i, PlaceholderEnd(s, i))

(***************************************************************************)
(* The program's state.                                                    *)
(***************************************************************************)
VARIABLES
    fs,              \* the filesystem: path |-> [kind, ctime], for the paths that exist
    contain,         \* self.contain: None without --contain, else <<string>>
    date,            \* self.date: None without --date, else <<cutoff>>
    found_flag,      \* self.found_flag (False under --hide-found)
    not_found_flag,  \* self.not_found_flag (False under --hide-not-found)
    walk,            \* the .nk documents in the order search() meets them: [readable, text]
    idx,             \* the number of documents search() is through with
    pc,              \* where search() stands: "walk", "opened", "searched", "filtered", "done", "aborted"
    text,            \* the text of the open document
    read_nodes,      \* search_files: the records find_node returned
    listed,          \* search_files: the directories looked up so far, in order
    found,           \* the found list search_files returned
    not_found,       \* the not-found list search_files returned
    kept_found,      \* the found list filter_token returned
    kept_not_found,  \* the not-found list filter_token returned
    printed,         \* what print_files did for the open document
    reported,        \* the documents (indices of walk) whose lists were printed
    error            \* the exception that ended search(), "" if none

vars == <<fs, contain, date, found_flag, not_found_flag, walk, idx, pc, text, read_nodes,
          listed, found, not_found, kept_found, kept_not_found, printed, reported, error>>

\* an optional argument is a sequence of at most one value; None is the empty one
None == <<>>

\* the value of an argument that is given
Given(arg) == arg[1]

(***************************************************************************)
(* The filesystem calls.                                                   *)
(***************************************************************************)
IsDir(path) == path \in DOMAIN fs /\ fs[path].kind = "dir"

\* whether a regular file stands at path or at one of its ancestors
UnderFile(path) ==
    \E p \in DOMAIN fs : fs[p].kind = "file" /\ (path = p \/ StartsWith(path, p \o "/"))

\* whether the existing path q, parsed, is an entry of directory
IsEntry(q, directory) == q.names # <<>> /\ Str(Parent(q)) = directory

\* the names of a directory's entries
Entries(directory) == {Name(q) : q \in {e \in {Path(p) : p \in DOMAIN fs} : IsEntry(e, directory)}}

\* os.listdir(directory)
listdir(directory) ==
    IF IsDir(directory) THEN [raised |-> FALSE, error |-> "", files |-> Entries(directory)]
    ELSE IF UnderFile(directory) THEN [raised |-> TRUE, error |-> "NotADirectoryError", files |-> {}]
    ELSE [raised |-> TRUE, error |-> "FileNotFoundError", files |-> {}]

\* glob.has_magic
HasMagic(s) == Contains(s, "*") \/ Contains(s, "?") \/ Contains(s, "[")

\* fnmatch of a name against a pattern whose wildcards are * and ?
RECURSIVE FnMatch(_, _)
FnMatch(pat, name) ==
    IF pat = "" THEN name = ""
    ELSE IF At(pat, 1) = "*"
         THEN FnMatch(From(pat, 2), name) \/ (name # "" /\ FnMatch(pat, From(name, 2)))
    ELSE IF At(pat, 1) = "?" THEN name # "" /\ FnMatch(From(pat, 2), From(name, 2))
    ELSE name # "" /\ At(pat, 1) = At(name, 1) /\ FnMatch(From(pat, 2), From(name, 2))

\* whether an entry's name matches a one-component pathlib pattern: a pattern
\* without wildcards names one entry; * also matches dot files
PathMatch(pattern, name) == IF HasMagic(pattern) THEN FnMatch(pattern, name) ELSE name = pattern

\* directory.glob(pattern) of pathlib for a one-component pattern: the names
\* of the matches, none when directory is no directory
PathGlob(directory, pattern) ==
    IF ~IsDir(directory) THEN {} ELSE {n \in Entries(directory) : PathMatch(pattern, n)}

\* a path component against a component of a glob.glob pattern: a wildcard
\* does not match a leading dot
GlobComponent(pat, name) ==
    IF HasMagic(pat) THEN FnMatch(pat, name) /\ (StartsWith(name, ".") => StartsWith(pat, "."))
    ELSE pat = name

\* whether the components of an existing path match those of a pattern
GlobNames(pats, names) ==
    Len(names) = Len(pats) /\ \A k \in 1..Len(names) : GlobComponent(pats[k], names[k])

\* the existing paths that match the pattern's components
GlobPaths(pats) == {p \in DOMAIN fs : GlobNames(pats, PathNames(p))}

\* glob.glob(pathname) for an absolute pathname: the existing paths that match
\* it component by component
GlobGlob(pathname) == GlobPaths(PathNames(pathname))

\* sorted(paths)[0] for a non-empty set of strings
FirstSorted(paths) == CHOOSE p \in paths : \A q \in paths : q = p \/ StrLess(p, q)

\* os.path.getctime(path)
getctime(path) ==
    IF path \in DOMAIN fs THEN [raised |-> FALSE, error |-> "", ctime |-> fs[path].ctime]
    ELSE [raised |-> TRUE, error |-> "FileNotFoundError", ctime |-> 0]

(***************************************************************************)
(* The Reference Resolver.                                                 *)
(***************************************************************************)
\* _handle_sequence_pattern(path): (found, not_found); matching_files is only
\* tested for emptiness
_handle_sequence_pattern(path) ==
    IF PathGlob(PathParent(path), SubPlaceholderExr(PathName(path), 1)) # {}
    THEN [raised |-> FALSE, error |-> "", found |-> path, not_found |-> ""]
    ELSE [raised |-> FALSE, error |-> "", found |-> "", not_found |-> path]

\* the try statement and the test of _handle_non_sequence_pattern, for the
\* outcome of os.listdir(directory): only FileNotFoundError is caught
NameAmong(path, files) ==
    IF files.raised /\ files.error = "FileNotFoundError"
    THEN [raised |-> FALSE, error |-> "", found |-> "", not_found |-> path]
    ELSE IF files.raised
    THEN [raised |-> TRUE, error |-> files.error, found |-> "", not_found |-> ""]
    ELSE IF PathName(path) \in files.files
    THEN [raised |-> FALSE, error |-> "", found |-> path, not_found |-> ""]
    ELSE [raised |-> FALSE, error |-> "", found |-> "", not_found |-> path]

\* _handle_non_sequence_pattern(path)
_handle_non_sequence_pattern(path) == NameAmong(path, listdir(PathParent(path)))

\* the branch of _extract_file_path, for the normalized path
HandlePattern(path) ==
    IF HasPlaceholder(path) THEN _handle_sequence_pattern(path)
    ELSE _handle_non_sequence_pattern(path)

\* _extract_file_path(path)
_extract_file_path(path) == HandlePattern(NormalizePath(path))

\* IsJoinExpression testing for the marker without its backslash
IsJoinExpressionNoBackslash(file_path) == StartsWith(file_path, "[join")

\* the test of the skip rule: file_path.startswith('\\[join')
IsJoinExpression(file_path) == StartsWith(file_path, "\\[join")

\* AppendResult without the test `if not_found_files`: the empty component is
\* appended too
AppendResultUnguarded(acc, directory, r) ==
    IF r.raised
    THEN [acc EXCEPT !.raised = TRUE, !.error = r.error, !.listed = Append(@, directory)]
    ELSE [acc EXCEPT !.listed = Append(@, directory),
                     !.found = IF r.found # "" THEN Append(@, r.found) ELSE @,
                     !.not_found = Append(@, r.not_found)]

\* the two appends of search_files for the resolver's result r, after the
\* lookup in directory; an exception of the resolver ends the loop
AppendResult(acc, directory, r) ==
    IF r.raised
    THEN [acc EXCEPT !.raised = TRUE, !.error = r.error, !.listed = Append(@, directory)]
    ELSE [acc EXCEPT !.listed = Append(@, directory),
                     !.found = IF r.found # "" THEN Append(@, r.found) ELSE @,
                     !.not_found = IF r.not_found # "" THEN Append(@, r.not_found) ELSE @]

\* the body of the loop of search_files for a node with a file attribute, its
\* quotes stripped
SearchPath(acc, file_path) ==
    IF IsJoinExpression(file_path) THEN acc
    ELSE AppendResult(acc, PathParent(NormalizePath(file_path)), _extract_file_path(file_path))

\* the body of the loop of search_files
SearchNode(acc, node) ==
    IF "file" \in DOMAIN node THEN SearchPath(acc, Strip(node["file"], {"\""})) ELSE acc

\* the loop of search_files over the nodes, with the lists built so far
RECURSIVE SearchNodes(_, _)
SearchNodes(nodes, acc) ==
    IF nodes = <<>> \/ acc.raised THEN acc
    ELSE SearchNodes(Tail(nodes), SearchNode(acc, Head(nodes)))

\* search_files after read_nodes = self.find_node(text, "Read")
SearchRead(n) ==
    IF n.raised
    THEN [raised |-> TRUE, error |-> n.error, nodes |-> <<>>, listed |-> <<>>,
          found |-> <<>>, not_found |-> <<>>]
    ELSE SearchNodes(n.nodes, [raised |-> FALSE, error |-> "", nodes |-> n.nodes,
                               listed |-> <<>>, found |-> <<>>, not_found |-> <<>>])

\* search_files(text)
search_files(doc) == SearchRead(find_node(doc, "Read"))

(***************************************************************************)
(* Filtering and presentation.                                             *)
(***************************************************************************)
\* HasAllTokens with any in place of all
HasAnyToken(path, tokens) == \E k \in 1..Len(tokens) : Contains(path, tokens[k])

\* all(token in str(path) for token in tokens)
HasAllTokens(path, tokens) == \A k \in 1..Len(tokens) : Contains(path, tokens[k])

\* [path for path in paths if all(token in str(path) for token in tokens)]
KeepWithTokens(paths, tokens) == SelectSeq(paths, LAMBDA path : HasAllTokens(path, tokens))

\* one list of filter_token; None and the empty string are falsy
FilterList(paths, c) ==
    IF c = None \/ Given(c) = "" THEN paths ELSE KeepWithTokens(paths, Split(Given(c), "/"))

\* filter_token(found, not_found) under self.contain = c
filter_token(f, nf, c) == [found |-> FilterList(f, c), not_found |-> FilterList(nf, c)]

\* get_first_file_in_sequence(path): path is rebound to the wildcard pattern
\* before the glob, and that is what falls through to the final return
FirstOf(pattern, sequence_files) ==
    IF sequence_files # {} THEN FirstSorted(sequence_files) ELSE pattern

get_first_file_in_sequence(path) ==
    IF Contains(path, "%") \/ Contains(path, "#")
    THEN FirstOf(SubPlaceholder(path, 1), GlobGlob(SubPlaceholder(path, 1)))
    ELSE path

\* the comparison of the date loop for the first file of path and the outcome
\* c of os.path.getctime on it: acc holds modified_found so far and every
\* comparison made ([path, first, ctime])
Compare(acc, path, first, c) ==
    IF c.raised
    THEN [acc EXCEPT !.raised = TRUE, !.error = c.error,
                     !.compared = Append(@, [path |-> path, first |-> first, ctime |-> 0])]
    ELSE [acc EXCEPT !.compared = Append(@, [path |-> path, first |-> first, ctime |-> c.ctime]),
                     !.modified_found = IF c.ctime < Given(date)
                                        THEN Append(@, <<first, c.ctime>>) ELSE @]

\* the body of the date loop, after path = self.get_first_file_in_sequence(path)
CompareFirst(acc, path, first) == Compare(acc, path, first, getctime(first))

\* the date loop of print_files over the found list
RECURSIVE DateLoop(_, _)
DateLoop(paths, acc) ==
    IF paths = <<>> \/ acc.raised THEN acc
    ELSE DateLoop(Tail(paths), CompareFirst(acc, Head(paths), get_first_file_in_sequence(Head(paths))))

\* the found half of print_files, for the outcome of the date loop
PrintFound(f, loop) ==
    IF ~found_flag
    THEN [raised |-> FALSE, error |-> "", found |-> <<>>, compared |-> <<>>]
    ELSE IF date = None
    THEN [raised |-> FALSE, error |-> "", found |-> f, compared |-> <<>>]
    ELSE [raised |-> loop.raised, error |-> loop.error,
          found |-> IF loop.raised THEN <<>> ELSE loop.modified_found, compared |-> loop.compared]

\* print_files(found, not_found): the lines printed under each heading; with a
\* date the found lines are (path, creation time) pairs, printed after the loop
print_files(f, nf) ==
    [shown |-> PrintFound(f, DateLoop(f, [raised |-> FALSE, error |-> "", compared |-> <<>>,
                                          modified_found |-> <<>>])),
     not_found |-> IF not_found_flag THEN nf ELSE <<>>]

(***************************************************************************)
(* The inputs: filesystems, documents and command lines.                   *)
(***************************************************************************)
\* the render directory's frames that may exist
FramePaths == {"/r/b.0001.exr", "/r/b.0002.exr", "/r/b.0001.jpg"}

Directory == [kind |-> "dir", ctime |-> 1]

\* the filesystems: /r missing, /r a regular file, or /r a directory holding
\* any of the frames, each with any creation time
Filesystems ==
    {[p \in {"/"} |-> Directory]}
    \cup {[p \in {"/", "/r"} |-> IF p = "/" THEN Directory ELSE [kind |-> "file", ctime |-> 1]]}
    \cup UNION {{[p \in {"/", "/r"} \cup S |->
                    IF p \in S THEN [kind |-> "file", ctime |-> t[p]] ELSE Directory]
                 : t \in [S -> 1..MaxCtime]} : S \in SUBSET FramePaths}

\* a filesystem with both .exr frames, the first one the older
RenderedFs ==
    [p \in {"/", "/r", "/r/b.0001.exr", "/r/b.0002.exr"} |->
        IF p = "/r/b.0001.exr" THEN [kind |-> "file", ctime |-> 1]
        ELSE IF p = "/r/b.0002.exr" THEN [kind |-> "file", ctime |-> MaxCtime]
        ELSE Directory]

\* the values of a Read node's file attribute
FileValues ==
    {"/r/b.%04d.exr", "/r/b.####.exr", "/r/b.0001.exr", "C:/r/b.0002.exr",
     "/r/b.%04d.jpg", "/r/b.%04d_exr", "/r/b.0001.exr/x.exr",
     "\\[join [value root.name] /plate.exr]"}

\* a Read node as Nuke writes it
ReadNode(value) == "Read {\n file \"" \o value \o "\"\n}\n"

\* pieces of document text: nodes with one or two spaces or a tab after the
\* key, a repeated key, a value with spaces, other node types, a blank line,
\* a node without file, a node that is never closed
Snippets ==
    {ReadNode("/r/b.%04d.exr"),
     "Read {\n file  \"/r/b.0001.exr\"\n}\n",
     "Read {\n file\t\"/r/b.0001.exr\"\n}\n",
     "Read {\n file \"/r/b.0001.exr\"\n name a  b\n file \"/r/b.0001.jpg\"\n}\n",
     "Blur {\n size 2\n}\n",
     "DeepRead {\n\n file \"\\[join x]\"\n}\n",
     "Read {\n inputs 0\n}\n",
     "Read {\n file \"/r/b.0002.exr\"\n"}

\* the texts of up to n snippets
RECURSIVE Texts(_)
Texts(n) == IF n = 0 THEN {""} ELSE {""} \cup {a \o b : a \in Snippets, b \in Texts(n - 1)}

\* --contain arguments
ContainArgs == {None} \cup {<<c>> : c \in {"", "r/b", "0001/r", "r/0001", "exr/jpg"}}

\* --date arguments: none, or a cutoff
DateArgs == {None} \cup {<<d>> : d \in 1..MaxCtime}

\* the documents of a walk: readable or not, with one of two texts
WalkDocs == [readable : BOOLEAN, text : {ReadNode("/r/b.%04d.exr"), ReadNode("/r/b.0001.jpg")}]

\* the walks of up to n documents
RECURSIVE Walks(_)
Walks(n) == IF n = 0 THEN {<<>>} ELSE {<<>>} \cup {<<d>> \o w : d \in WalkDocs, w \in Walks(n - 1)}

\* print_files has not run for the open document
NothingPrinted ==
    [shown |-> [raised |-> FALSE, error |-> "", found |-> <<>>, compared |-> <<>>], not_found |-> <<>>]

\* nothing opened yet
Start ==
    /\ idx = 0 /\ pc = "walk" /\ text = "" /\ read_nodes = <<>> /\ listed = <<>>
    /\ found = <<>> /\ not_found = <<>> /\ kept_found = <<>> /\ kept_not_found = <<>>
    /\ printed = NothingPrinted
    /\ reported = {} /\ error = ""

\* one document with one Read node: every reference against every filesystem
\* and date
InitResolve ==
    /\ fs \in Filesystems
    /\ contain = None /\ date \in DateArgs
    /\ found_flag \in BOOLEAN /\ not_found_flag = TRUE
    /\ walk \in {<<[readable |-> TRUE, text |-> ReadNode(v)]>> : v \in FileValues}
    /\ Start

\* one document of any text, under every --contain
InitParse ==
    /\ fs = RenderedFs
    /\ contain \in ContainArgs /\ date = None
    /\ found_flag = TRUE /\ not_found_flag = TRUE
    /\ walk \in {<<[readable |-> TRUE, text |-> t]>> : t \in Texts(MaxNodes)}
    /\ Start

\* several documents, some unreadable
InitWalk ==
    /\ fs = RenderedFs
    /\ contain = None /\ date = None
    /\ found_flag = TRUE /\ not_found_flag \in BOOLEAN
    /\ walk \in Walks(MaxDocs)
    /\ Start

Init == InitResolve \/ InitParse \/ InitWalk

(***************************************************************************)
(* search(): one action per statement of the loop body.                    *)
(***************************************************************************)
\* an exception leaves search(): nothing catches it
Raise(e) == pc' = "aborted" /\ error' = e

\* with open(filename, 'r') as file: text = file.read()
OpenDocument ==
    /\ pc = "walk" /\ idx < Len(walk)
    /\ IF walk[idx + 1].readable
       THEN /\ text' = walk[idx + 1].text
            /\ pc' = "opened"
            /\ UNCHANGED error
       ELSE /\ Raise("PermissionError")
            /\ UNCHANGED text
    /\ read_nodes' = <<>> /\ listed' = <<>> /\ found' = <<>> /\ not_found' = <<>>
    /\ kept_found' = <<>> /\ kept_not_found' = <<>>
    /\ printed' = NothingPrinted
    /\ UNCHANGED <<fs, contain, date, found_flag, not_found_flag, walk, idx, reported>>

\* found, not_found = self.search_files(text)
SearchFiles ==
    /\ pc = "opened"
    /\ \E r \in {search_files(text)} :
          /\ read_nodes' = r.nodes
          /\ listed' = r.listed
          /\ IF r.raised
             THEN Raise(r.error) /\ UNCHANGED <<found, not_found>>
             ELSE /\ found' = r.found
                  /\ not_found' = r.not_found
                  /\ pc' = "searched"
                  /\ UNCHANGED error
    /\ UNCHANGED <<fs, contain, date, found_flag, not_found_flag, walk, idx, text,
                   kept_found, kept_not_found, printed, reported>>

\* found, not_found = self.filter_token(found, not_found)
FilterToken ==
    /\ pc = "searched"
    /\ \E r \in {filter_token(found, not_found, contain)} :
          kept_found' = r.found /\ kept_not_found' = r.not_found
    /\ pc' = "filtered"
    /\ UNCHANGED <<fs, contain, date, found_flag, not_found_flag, walk, idx, text, read_nodes,
                   listed, found, not_found, printed, reported, error>>

\* self.print_files(found, not_found), and on to the next document
PrintFiles ==
    /\ pc = "filtered"
    /\ \E r \in {print_files(kept_found, kept_not_found)} :
          /\ printed' = r
          /\ IF r.shown.raised
             THEN Raise(r.shown.error) /\ UNCHANGED <<idx, reported>>
             ELSE /\ pc' = "walk"
                  /\ idx' = idx + 1
                  /\ reported' = reported \cup {idx + 1}
                  /\ UNCHANGED error
    /\ UNCHANGED <<fs, contain, date, found_flag, not_found_flag, walk, text, read_nodes,
                   listed, found, not_found, kept_found, kept_not_found>>

\* os.walk is exhausted: search() returns
Finish ==
    /\ pc = "walk" /\ idx = Len(walk)
    /\ pc' = "done"
    /\ UNCHANGED <<fs, contain, date, found_flag, not_found_flag, walk, idx, text, read_nodes,
                   listed, found, not_found, kept_found, kept_not_found, printed, reported, error>>

Next == OpenDocument \/ SearchFiles \/ FilterToken \/ PrintFiles \/ Finish

Spec == Init /\ [][Next]_vars

(***************************************************************************)
(* What the claims speak of.                                               *)
(***************************************************************************)
\* search_files has returned for the open document
SearchReturned == pc \in {"searched", "filtered"} \/ (pc = "walk" /\ idx \in reported)

\* filter_token has returned for the open document
FilterReturned == pc = "filtered" \/ (pc = "walk" /\ idx \in reported)

\* print_files has run for the open document, to its end or to an exception
PrintRan == (pc = "walk" /\ idx \in reported) \/ (pc = "aborted" /\ printed # NothingPrinted)

\* a node's file value without its quotes
Unquoted(node) == Strip(node["file"], {"\""})

\* the value begins with the six characters \[join
BeginsWithJoin(value) == Len(value) >= 6 /\ SubSeq(value, 1, 6) = "\\[join"

\* the file values of the nodes that have one, in order
FileValuesOf(nodes) ==
    [i \in 1..Len(SelectSeq(nodes, LAMBDA n : "file" \in DOMAIN n)) |->
        Unquoted(SelectSeq(nodes, LAMBDA n : "file" \in DOMAIN n)[i])]

\* the references search_files resolves, and the ones it skips
Resolved(nodes) == SelectSeq(FileValuesOf(nodes), LAMBDA v : ~BeginsWithJoin(v))
Skipped(nodes) == SelectSeq(FileValuesOf(nodes), LAMBDA v : BeginsWithJoin(v))

\* the members of a sequence
Range(seq) == {seq[i] : i \in 1..Len(seq)}

\* the elements of refs at the indices in keep, in order
Pick(refs, keep) == SelectSeq([i \in 1..Len(refs) |-> <<i, refs[i]>>], LAMBDA e : e[1] \in keep)

\* C1: once search_files has returned, the found and not-found lists split the
\* resolved references between them: some set of the references, normalized
\* and in document order, is the found list and the others are the not-found
\* list, so every reference is in exactly one list, exactly once.
C1_OneEntryPerReference ==
    SearchReturned =>
        \E side \in SUBSET (1..Len(Resolved(read_nodes))) :
            /\ found = [i \in 1..Len(Pick(Resolved(read_nodes), side)) |->
                           NormalizePath(Pick(Resolved(read_nodes), side)[i][2])]
            /\ not_found = [i \in 1..Len(Pick(Resolved(read_nodes), (1..Len(Resolved(read_nodes))) \ side)) |->
                           NormalizePath(Pick(Resolved(read_nodes), (1..Len(Resolved(read_nodes))) \ side)[i][2])]

\* C1's case: a document with two resolved references, one found, one not
C1_Witness ==
    /\ SearchReturned
    /\ Len(Resolved(read_nodes)) = 2 /\ Len(found) = 1 /\ Len(not_found) = 1

\* every path string print_files was given or put out for the open document
Outputs ==
    Range(found) \cup Range(not_found) \cup Range(kept_found) \cup Range(kept_not_found)
    \cup Range(printed.not_found)
    \cup {IF Len(e) = 2 /\ e[2] \in Nat THEN e[1] ELSE e : e \in Range(printed.shown.found)}
    \cup {c.path : c \in Range(printed.shown.compared)}

\* C2: a Read node whose file value, unquoted, begins with \[join is skipped
\* under every filesystem, --contain and --date: neither the value nor its
\* normalized path is in any list search_files, filter_token or print_files
\* handles, and the directories search_files looked up are exactly the
\* parents of the references that do not begin with \[join, in order.
C2_JoinSkipped ==
    /\ \A v \in Range(Skipped(read_nodes)) : v \notin Outputs /\ NormalizePath(v) \notin Outputs
    /\ SearchReturned =>
          listed = [i \in 1..Len(Resolved(read_nodes)) |->
                       PathParent(NormalizePath(Resolved(read_nodes)[i]))]

\* C2's case: a document with a \[join node and a resolved node has been
\* searched, filtered and printed
C2_Witness ==
    /\ pc = "walk" /\ idx \in reported
    /\ Skipped(read_nodes) # <<>> /\ Resolved(read_nodes) # <<>>
    /\ contain # None /\ printed.shown.found # <<>>

\* the glob of the claim: every placeholder that the literal extension .exr
\* follows, extension included, becomes a wildcard (s from index i on)
RECURSIVE ExrWildcard(_, _)
ExrWildcard(s, i) ==
    IF i > Len(s) THEN ""
    ELSE IF PlaceholderEnd(s, i) > 0 /\ OccursAt(s, ".exr", PlaceholderEnd(s, i) + 1)
    THEN "*" \o ExrWildcard(s, PlaceholderEnd(s, i) + 5)
    ELSE At(s, i) \o ExrWildcard(s, i + 1)

\* the normalized sequence references, and the others
SequenceRefs == {p \in {NormalizePath(v) : v \in Range(Resolved(read_nodes))} : HasPlaceholder(p)}
SingleRefs == {p \in {NormalizePath(v) : v \in Range(Resolved(read_nodes))} : ~HasPlaceholder(p)}

\* C3: a sequence reference is reported found exactly when an entry of its
\* parent directory matches the glob made by replacing the placeholder and the
\* .exr after it with a wildcard, and not found otherwise; either way the
\* pattern path itself is what is reported.
C3_SequenceFoundIffGlobMatches ==
    SearchReturned =>
        \A p \in SequenceRefs :
            /\ p \in Range(found) <=>
                  (IsDir(PathParent(p)) /\ \E n \in Entries(PathParent(p)) : FnMatch(ExrWildcard(PathName(p), 1), n))
            /\ p \in Range(not_found) <=> p \notin Range(found)

\* C4: a single-file reference is found when its name is among the entries of
\* its parent directory and not found otherwise, a missing parent included,
\* and resolving it raises for no filesystem.
C4_SingleNeverRaises ==
    /\ pc = "aborted" => error \notin {"NotADirectoryError", "FileNotFoundError"} \/ PrintRan
    /\ SearchReturned =>
          \A p \in SingleRefs :
              /\ p \in Range(found) <=> (IsDir(PathParent(p)) /\ PathName(p) \in Entries(PathParent(p)))
              /\ p \in Range(not_found) <=> p \notin Range(found)

\* the largest member of a set of indices, 0 for the empty set
Greatest(S) == IF S = {} THEN 0 ELSE CHOOSE k \in S : \A m \in S : m <= k

\* the indices of t at which a `Read {` opens, and those of its closing braces
Openers(t) == {i \in 1..Len(t) : OccursAt(t, "Read {", i)}
Closers(t) == {j \in 1..Len(t) : At(t, j) = "}"}

\* the opener a closing brace at j ends: the first one after the closing brace
\* before j whose body fits before j (0: the brace ends no occurrence)
OpenerOf(t, j) == Least({i \in Openers(t) : Greatest({c \in Closers(t) : c < j}) < i /\ i + 6 <= j})

\* the closing braces that end an occurrence of `Read { body }`, in order
RECURSIVE Ascending(_)
Ascending(S) == IF S = {} THEN <<>> ELSE <<Least(S)>> \o Ascending(S \ {Least(S)})

Occurrences(t) == Ascending({j \in Closers(t) : OpenerOf(t, j) > 0})

\* the body of the occurrence that ends at j
BodyOf(t, j) == SubSeq(t, OpenerOf(t, j) + 6, j - 1)

\* the non-blank lines of a body, stripped
Declarations(body) == SelectSeq([i \in 1..Len(Split(body, "\n")) |-> Strip(Split(body, "\n")[i], Whitespace)],
                                LAMBDA l : l # "")

\* a record in which every declared key has the value of its last declaration,
\* keys and values being what split(line) gives
LastDeclared(lines, split(_)) ==
    [k \in {split(lines[i])[1] : i \in 1..Len(lines)} |->
        split(lines[Greatest({i \in 1..Len(lines) : split(lines[i])[1] = k})])[2]]

\* C5: when find_node returns, it gives one record per occurrence of
\* `Read { body }` in the text, in the order of the occurrences, and in each
\* record a key maps to the value of its last declaration in the body.
C5_OneRecordPerOccurrenceLastWins ==
    SearchReturned =>
        read_nodes = [i \in 1..Len(Occurrences(text)) |->
                         LastDeclared(Declarations(BodyOf(text, Occurrences(text)[i])), SplitProp)]

\* C5's case: a text with two occurrences, one declaring file twice
C5_Witness ==
    /\ SearchReturned /\ Len(read_nodes) = 2
    /\ \E i \in 1..2 : \E l, m \in 1..Len(Declarations(BodyOf(text, Occurrences(text)[i]))) :
          /\ l < m
          /\ SplitProp(Declarations(BodyOf(text, Occurrences(text)[i]))[l])[1] = "file"
          /\ SplitProp(Declarations(BodyOf(text, Occurrences(text)[i]))[m])[1] = "file"

\* the tokens of a --contain string: the pieces between its slashes
TokenSet(c) == Range(Split(c, "/"))

\* kept holds exactly the entries of paths that contain every token, in the
\* order they have in paths
KeepsExactly(kept, paths, tokens) ==
    kept = [i \in 1..Cardinality({k \in 1..Len(paths) : \A t \in tokens : Contains(paths[k], t)}) |->
              paths[CHOOSE k \in 1..Len(paths) :
                        /\ \A t \in tokens : Contains(paths[k], t)
                        /\ Cardinality({m \in 1..k : \A t \in tokens : Contains(paths[m], t)}) = i]]

\* C6: with a --contain string, filter_token keeps of each list exactly the
\* entries that contain every piece of the string between slashes, whatever
\* the order of the pieces, in their order; without one both lists are as
\* search_files returned them.
C6_FilterKeepsEntriesWithEveryToken ==
    FilterReturned =>
        IF contain = None
        THEN kept_found = found /\ kept_not_found = not_found
        ELSE /\ KeepsExactly(kept_found, found, TokenSet(Given(contain)))
             /\ KeepsExactly(kept_not_found, not_found, TokenSet(Given(contain)))

\* C6's case: of two found entries the filter keeps one and drops one
C6_Witness ==
    /\ FilterReturned /\ contain # None
    /\ Len(found) = 2 /\ Len(kept_found) = 1
    /\ Cardinality(TokenSet(Given(contain))) = 2

\* C7: under a date cutoff the found list is printed through the date loop,
\* and for every found sequence reference the loop compares the creation time
\* of an existing frame file, the first in sorted order of the frames the
\* wildcard pattern matches, and prints the entry exactly when that time is
\* earlier than the cutoff.
C7_DateComparesFirstFrame ==
    (PrintRan /\ date # None /\ found_flag) =>
        \A p \in {q \in Range(kept_found) : HasPlaceholder(q)} :
            \E c \in Range(printed.shown.compared) :
                /\ c.path = p
                /\ c.first \in DOMAIN fs /\ fs[c.first].kind = "file"
                /\ \A q \in GlobGlob(SubPlaceholder(p, 1)) : q = c.first \/ StrLess(c.first, q)
                /\ <<c.first, c.ctime>> \in Range(printed.shown.found) <=> fs[c.first].ctime < Given(date)

\* C8: when search() ends, every readable document other than the one whose
\* processing raised has been read, resolved and reported.
C8_ErrorDoesNotAbortWalk ==
    pc \in {"done", "aborted"} =>
        \A k \in 1..Len(walk) :
            (walk[k].readable /\ ~(pc = "aborted" /\ k = idx + 1)) => k \in reported

\* C9: for a path with a placeholder get_first_file_in_sequence returns the
\* first in sorted order of the existing files the wildcard pattern matches,
\* and the path it was given when none matches.
C9_FirstFileOrOriginalPath ==
    \A c \in Range(printed.shown.compared) :
        HasPlaceholder(c.path) =>
            IF GlobGlob(SubPlaceholder(c.path, 1)) = {}
            THEN c.first = c.path
            ELSE /\ c.first \in GlobGlob(SubPlaceholder(c.path, 1))
                 /\ \A q \in GlobGlob(SubPlaceholder(c.path, 1)) : q = c.first \/ StrLess(c.first, q)

\* a line split on its first run of spaces and tabs: the key before the run,
\* the value after it
SplitWhitespaceRun(line) ==
    <<SubSeq(line, 1, Least({i \in 1..Len(line) : At(line, i) \in Whitespace}) - 1),
      LStrip(From(line, Least({i \in 1..Len(line) : At(line, i) \in Whitespace})), Whitespace)>>

\* every non-blank line of every body holds a run of spaces and tabs after its key
Separated(t) ==
    \A j \in Range(Occurrences(t)) : \A l \in Range(Declarations(BodyOf(t, j))) :
        \E i \in 1..Len(l) : At(l, i) \in Whitespace

\* C10: find_node splits every non-blank line of a body on its first run of
\* spaces and tabs: for a text whose lines all hold such a run it returns, and
\* the records hold the keys before the runs and the values after them.
C10_SplitOnFirstWhitespaceRun ==
    /\ (pc = "aborted" /\ error = "ValueError") => ~Separated(text)
    /\ (SearchReturned /\ Separated(text)) =>
          read_nodes = [i \in 1..Len(Occurrences(text)) |->
                           LastDeclared(Declarations(BodyOf(text, Occurrences(text)[i])), SplitWhitespaceRun)]

====
